---- MODULE Spec2Model ----
(***************************************************************************)
(* Twister v0.9 (twister.py): the edit-operation permutation engine        *)
(* (EditOp and its six subclasses, generate_users, generate_all) and the   *)
(* availability checker (user_available, check_available).                 *)
(*                                                                         *)
(* A Python str is a sequence of one-character strings.  Python indexes    *)
(* from 0, TLA+ sequences from 1: position i of the source is i+1 here.    *)
(***************************************************************************)
EXTENDS Integers, Sequences, FiniteSets, TLC

\* the length limit of a username (the literal 15 of InsOp, PreOp, SufOp)
MaxUserLen == 15

\* bounds of the model: targets of a batch run, length of a profile
MaxTargets == 2
MaxProfileLen == 2

\* bounds of the model: candidates handed to check_available, worker threads
MaxChecked == 3
MaxThreads == 2

----------------------------------------------------------------------------
(* Python helpers *)

Range(s) == {s[i] : i \in DOMAIN s}

RECURSIVE join(_)
\* ''.join(parts), and list.extend over a list of lists
join(parts) ==
    IF Len(parts) = 0 THEN <<>> ELSE Head(parts) \o join(Tail(parts))

RECURSIVE Ascending(_)
\* the members of a set of positions in increasing order (enumerate order)
Ascending(S) ==
    IF S = {} THEN <<>>
    ELSE LET m == CHOOSE x \in S : \A y \in S : x <= y
         IN <<m>> \o Ascending(S \ {m})

RECURSIVE combinations(_, _)
\* itertools.combinations(s, r): r-subsequences of s, in lexicographic
\* order of positions
combinations(s, r) ==
    IF r = 0 THEN << <<>> >>
    ELSE IF Len(s) < r THEN <<>>
    ELSE LET first == combinations(Tail(s), r - 1)
         IN [j \in 1..Len(first) |-> <<Head(s)>> \o first[j]]
              \o combinations(Tail(s), r)

RECURSIVE product(_)
\* itertools.product(*lists): the rightmost list varies fastest
product(lists) ==
    IF Len(lists) = 0 THEN << <<>> >>
    ELSE LET rest == product(Tail(lists))
             h == Head(lists)
         IN join([x \in 1..Len(h) |->
                    [j \in 1..Len(rest) |-> <<h[x]>> \o rest[j]]])

\* list(collections.OrderedDict.fromkeys(elems)): first occurrences, in order
unique(elems) ==
    LET firsts == Ascending({i \in 1..Len(elems) :
                               \A j \in 1..(i - 1) : elems[j] # elems[i]})
    IN [n \in 1..Len(firsts) |-> elems[firsts[n]]]

----------------------------------------------------------------------------
(* SubOp *)

\* SubOp.edits: (position, replacements) of every mapped character
SubEdits(cases, string) ==
    LET idx == Ascending({i \in 1..Len(string) : string[i] \in DOMAIN cases})
    IN [n \in 1..Len(idx) |-> <<idx[n], cases[string[idx[n]]]>>]

RECURSIVE SubWrite(_, _, _, _)
\* for i, char in enumerate(ed): chars[edit[i][0]] = char
SubWrite(chars, edit, ed, i) ==
    IF i > Len(ed) THEN chars
    ELSE SubWrite([chars EXCEPT ![edit[i][1]] = ed[i]], edit, ed, i + 1)

\* a Substitution that keeps only the first replacement of each site
SubChoicesFirstOnly(edit) ==
    product([i \in 1..Len(edit) |-> <<edit[i][2][1]>>])

\* itertools.product(*[e[1] for e in edit])
SubChoices(edit) ==
    product([i \in 1..Len(edit) |-> edit[i][2]])

SubGenerate(string, edit) ==
    LET eds == SubChoices(edit)
    IN [n \in 1..Len(eds) |-> SubWrite(string, edit, eds[n], 1)]

----------------------------------------------------------------------------
(* TraOp *)

\* TraOp.edits: positions i with [string[i], string[i+1]] in self.cases
TraEdits(cases, string) ==
    Ascending({i \in 1..(Len(string) - 1) :
                 \E n \in 1..Len(cases) : cases[n] = <<string[i], string[i+1]>>})

RECURSIVE TraSwap(_, _, _)
\* for i in edit: swap chars[i] and chars[i+1] on the one list chars
TraSwap(chars, edit, n) ==
    IF n > Len(edit) THEN chars
    ELSE LET i == edit[n]
         IN TraSwap([chars EXCEPT ![i] = chars[i + 1], ![i + 1] = chars[i]],
                    edit, n + 1)

\* a Transposition whose swaps each read the original string
TraGenerateIndependent(string, edit) ==
    << [j \in 1..Len(string) |->
          IF \E n \in 1..Len(edit) : edit[n] + 1 = j /\ ~(j \in Range(edit))
            THEN string[j - 1]
          ELSE IF j \in Range(edit) THEN string[j + 1]
          ELSE string[j]] >>

TraGenerate(string, edit) ==
    << TraSwap(string, edit, 1) >>

----------------------------------------------------------------------------
(* InsOp *)

\* InsOp.edits: same scan as SubOp.edits
InsEdits(cases, string) ==
    LET idx == Ascending({i \in 1..Len(string) : string[i] \in DOMAIN cases})
    IN [n \in 1..Len(idx) |-> <<idx[n], cases[string[idx[n]]]>>]

RECURSIVE InsWrite(_, _, _, _)
\* for i, char in enumerate(ed): chars[edit[i][0]] += char
InsWrite(chars, edit, ed, i) ==
    IF i > Len(ed) THEN chars
    ELSE InsWrite([chars EXCEPT ![edit[i][1]] = @ \o <<ed[i]>>], edit, ed, i + 1)

\* an Insertion that keeps every result
InsFitsAlways(chars) == TRUE

\* if len(chars) <= 15
InsFits(chars) == Len(chars) <= MaxUserLen

InsGenerate(string, edit) ==
    LET eds == product([i \in 1..Len(edit) |-> edit[i][2]])
        cells == [j \in 1..Len(string) |-> <<string[j]>>]
        all == [n \in 1..Len(eds) |-> join(InsWrite(cells, edit, eds[n], 1))]
    IN SelectSeq(all, InsFits)

----------------------------------------------------------------------------
(* DelOp *)

\* DelOp.edits: positions whose character is in self.cases
DelEdits(cases, string) ==
    Ascending({i \in 1..Len(string) : string[i] \in Range(cases)})

\* [c for i, c in enumerate(string) if i not in edit]
DelChars(string, edit) ==
    LET idx == Ascending({i \in 1..Len(string) : i \notin Range(edit)})
    IN [n \in 1..Len(idx) |-> string[idx[n]]]

\* a Deletion that also returns the empty string
DelGenerateKeepEmpty(string, edit) ==
    << DelChars(string, edit) >>

DelGenerate(string, edit) ==
    LET chars == DelChars(string, edit)
    IN IF Len(chars) > 0 THEN <<chars>> ELSE <<>>

----------------------------------------------------------------------------
(* EditOp.apply, PreOp.apply, SufOp.apply *)

edits(op, string) ==
    CASE op.kind = "sub" -> SubEdits(op.cases, string)
      [] op.kind = "tra" -> TraEdits(op.cases, string)
      [] op.kind = "ins" -> InsEdits(op.cases, string)
      [] op.kind = "del" -> DelEdits(op.cases, string)

generate(op, string, edit) ==
    CASE op.kind = "sub" -> SubGenerate(string, edit)
      [] op.kind = "tra" -> TraGenerate(string, edit)
      [] op.kind = "ins" -> InsGenerate(string, edit)
      [] op.kind = "del" -> DelGenerate(string, edit)

\* for i in range(self.max): combinations of size i+1
Sizes(max) == 1..max

EditApply(op, string) ==
    LET eds == edits(op, string)
        sizes == Ascending(Sizes(op.max))
        ofSize(r) == LET cs == combinations(eds, r)
                     IN join([c \in 1..Len(cs) |-> generate(op, string, cs[c])])
    IN join([n \in 1..Len(sizes) |-> ofSize(sizes[n])])

\* if len(string2) <= 15
AffixFits(string2) == Len(string2) <= MaxUserLen

PreApply(cases, string) ==
    SelectSeq([n \in 1..Len(cases) |-> cases[n] \o string], AffixFits)

SufApply(cases, string) ==
    SelectSeq([n \in 1..Len(cases) |-> string \o cases[n]], AffixFits)

\* op.apply(string): PreOp and SufOp override EditOp.apply
apply(op, string) ==
    CASE op.kind = "pre" -> PreApply(op.cases, string)
      [] op.kind = "suf" -> SufApply(op.cases, string)
      [] OTHER -> EditApply(op, string)

----------------------------------------------------------------------------
(* The inputs of a run: validated targets and a validated profile *)

\* usernames as parse_user returns them: lowercase, [a-z0-9_], 1..15 chars
Bases ==
    { <<"r", "o", "o", "t">>, <<"a", "b", "c">>, <<"o", "o">> }

\* a 13-character affix (parse_pre_op accepts 1..14 characters)
LongAffix ==
    <<"x", "x", "x", "x", "x", "x", "x", "x", "x", "x", "x", "x", "o">>

\* operations as the parse_*_op functions build them
OpTable ==
    << [kind |-> "sub", cases |-> ("o" :> <<"0">>), max |-> 1],
       [kind |-> "sub", cases |-> ("o" :> <<"0">>) @@ ("a" :> <<"4", "o">>),
        max |-> 2],
       [kind |-> "tra",
        cases |-> << <<"a", "b">>, <<"b", "c">>, <<"o", "t">> >>, max |-> 2],
       [kind |-> "ins", cases |-> ("o" :> <<"0">>), max |-> 1],
       [kind |-> "del", cases |-> <<"o">>, max |-> 1],
       [kind |-> "del", cases |-> <<"o", "0", "r", "t">>, max |-> 2],
       [kind |-> "pre", cases |-> << <<"x">>, LongAffix >>, max |-> 1],
       [kind |-> "suf", cases |-> << <<"1">> >>, max |-> 1] >>

\* args.user = unique(args.user): the targets of a run are distinct
TargetLists ==
    { t \in UNION { [1..n -> Bases] : n \in 1..MaxTargets } :
        \A i, j \in DOMAIN t : t[i] = t[j] => i = j }

\* profiles over a set of operations of OpTable
ProfileIds(ops) ==
    UNION { [1..n -> ops] : n \in 0..MaxProfileLen }

\* the operations the runs with several targets draw their profiles from:
\* Substitution max 1, Transposition, Deletion max 2, Suffix
BatchOps == {1, 3, 6, 8}

----------------------------------------------------------------------------
(* State *)

VARIABLES
    targets,    \* generate_all: the targets argument
    profile,    \* the profile argument
    quiet,      \* the quiet argument
    pc,         \* position of the main thread
    ti,         \* generate_all: position of `for target in targets`
    allUsers,   \* generate_all: users
    users,      \* generate_users: users, the pool
    temp,       \* generate_users: temp, the strings staged in this pass
    k,          \* generate_users: position of `for op in profile`
    u,          \* generate_users: position of `for user in users`
    stdout,     \* the lines printed so far
    events,     \* the arguments of the success() calls of this generate_users
    returned,   \* the value the last generate_users call returned
    snapshot,   \* users as it was when the current pass began
    applied,    \* the strings op.apply was called on in the current pass
    lastApply,  \* the last op.apply call: [op, string, out]
    candidates, \* check_available: the users argument
    threads,    \* check_available: the threads argument
    cpc,        \* check_available: position of the main thread
    futures,    \* state of each submitted future
    queue,      \* the executor's work queue (positions in candidates)
    response,   \* what the endpoint answered to each finished request
    outcome,    \* what user_available returned or raised in each future
    yielded,    \* the futures as_completed has yielded, in order
    hits,       \* check_available: hits
    errs,       \* check_available: errs
    checked,    \* check_available: checked
    results,    \* check_available: results
    stopped,    \* the KeyboardInterrupt handler has run
    atStop,     \* the futures that had finished when the handler ran
    report      \* the summary line of check_available

genVars == <<targets, profile, quiet, pc, ti, allUsers, users, temp, k, u,
             stdout, events, returned, snapshot, applied, lastApply>>

chkVars == <<candidates, threads, cpc, futures, queue, response, outcome,
             yielded, hits, errs, checked, results, stopped, atStop, report>>

vars == <<genVars, chkVars>>

NoApply == [op |-> [kind |-> "none"], string |-> <<>>, out |-> <<>>]

----------------------------------------------------------------------------
(* Printing *)

\* info(msg, quiet)
info(out, msg, q) == IF q THEN out ELSE Append(out, <<"[*]", msg>>)

\* success(msg, quiet)
success(out, msg, q) == IF q THEN out ELSE Append(out, <<"[+]", msg>>)

----------------------------------------------------------------------------
(* generate_users *)

\* a membership test that forgets the pool
NotSeenStagedOnly(user1, pool, staged) == user1 \notin Range(staged)

\* user1 not in set(users + temp)
NotSeen(user1, pool, staged) == user1 \notin Range(pool \o staged)

\* a loop body that reports every string op.apply returns
StageOneReportAll(st, user1, pool, q) ==
    IF NotSeen(user1, pool, st.temp)
      THEN [temp |-> Append(st.temp, user1),
            events |-> Append(st.events, user1),
            stdout |-> success(st.stdout, user1, q)]
      ELSE [st EXCEPT !.events = Append(st.events, user1),
                      !.stdout = success(st.stdout, user1, q)]

\* the body of `for user1 in op.apply(user)`
StageOne(st, user1, pool, q) ==
    IF NotSeen(user1, pool, st.temp)
      THEN [temp |-> Append(st.temp, user1),
            events |-> Append(st.events, user1),
            stdout |-> success(st.stdout, user1, q)]
      ELSE st

RECURSIVE Stage(_, _, _, _, _)
\* for user1 in op.apply(user): ...
Stage(st, out, i, pool, q) ==
    IF i > Len(out) THEN st
    ELSE Stage(StageOne(st, out[i], pool, q), out, i + 1, pool, q)

\* a pass that iterates the list it is appending to
PassInputLive(pool, staged) == pool \o staged

\* `for user in users`: temp is a separate list, users does not grow in a pass
PassInput(pool, staged) == pool

\* users.remove(target): drops the first element equal to target
Remove(list, x) ==
    LET i == CHOOSE n \in 1..Len(list) :
                 list[n] = x /\ \A m \in 1..(n - 1) : list[m] # x
    IN SubSeq(list, 1, i - 1) \o SubSeq(list, i + 1, Len(list))

\* a batch driver that deduplicates across targets
CollectUnique(all, result) == unique(all \o result)

\* users.extend(generate_users(target, profile, quiet))
Collect(all, result) == all \o result

\* the strings one pass of op over pool appends, as a function of the pool:
\* the outputs that are not in the pool, each at its first occurrence, in the
\* order of the two loops (user by user, output by output)
PassTemp(pool, op) ==
    LET outs == join([n \in 1..Len(pool) |-> apply(op, pool[n])])
        first == {i \in 1..Len(outs) :
                    /\ outs[i] \notin Range(pool)
                    /\ \A j \in 1..(i - 1) : outs[j] # outs[i]}
        rank(i) == Cardinality({j \in first : j <= i})
    IN [r \in 1..Cardinality(first) |->
          outs[CHOOSE i \in first : rank(i) = r]]

RECURSIVE Passes(_, _, _)
\* the loop `for op in profile` as a function of the pool
Passes(pool, prof, i) ==
    IF i > Len(prof) THEN pool
    ELSE Passes(pool \o PassTemp(pool, prof[i]), prof, i + 1)

\* generate_users(target, profile) as a function of its arguments
GenerateUsers(target, prof) ==
    Remove(Passes(<<target>>, prof, 1), target)

----------------------------------------------------------------------------
(* Actions: generate_all and generate_users *)

\* generate_all, lines 404-405
GenAllStart ==
    /\ pc = "start"
    /\ stdout' = info(stdout, "generating usernames ...", quiet)
    /\ allUsers' = <<>>
    /\ ti' = 1
    /\ pc' = "next_target"
    /\ UNCHANGED <<targets, profile, quiet, users, temp, k, u, events,
                   returned, snapshot, applied, lastApply>>
    /\ UNCHANGED chkVars

\* generate_users is called: users = [target]
Call ==
    /\ pc = "next_target"
    /\ ti <= Len(targets)
    /\ users' = <<targets[ti]>>
    /\ k' = 1
    /\ events' = <<>>
    /\ temp' = <<>>
    /\ snapshot' = <<>>
    /\ applied' = <<>>
    /\ pc' = "op"
    /\ UNCHANGED <<targets, profile, quiet, ti, allUsers, u, stdout,
                   returned, lastApply>>
    /\ UNCHANGED chkVars

\* for op in profile: temp = []
BeginPass ==
    /\ pc = "op"
    /\ k <= Len(profile)
    /\ temp' = <<>>
    /\ u' = 1
    /\ snapshot' = users
    /\ applied' = <<>>
    /\ pc' = "user"
    /\ UNCHANGED <<targets, profile, quiet, ti, allUsers, users, k, stdout,
                   events, returned, lastApply>>
    /\ UNCHANGED chkVars

\* one iteration of `for user in users`: the whole loop over op.apply(user)
ApplyUser ==
    /\ pc = "user"
    /\ u <= Len(PassInput(users, temp))
    /\ LET user == PassInput(users, temp)[u]
           out == apply(profile[k], user)
           st == Stage([temp |-> temp, events |-> events, stdout |-> stdout],
                       out, 1, users, quiet)
       IN /\ temp' = st.temp
          /\ events' = st.events
          /\ stdout' = st.stdout
          /\ applied' = Append(applied, user)
          /\ lastApply' = [op |-> profile[k], string |-> user, out |-> out]
    /\ u' = u + 1
    /\ UNCHANGED <<targets, profile, quiet, pc, ti, allUsers, users, k,
                   returned, snapshot>>
    /\ UNCHANGED chkVars

\* users.extend(temp)
EndPass ==
    /\ pc = "user"
    /\ u > Len(PassInput(users, temp))
    /\ users' = users \o temp
    /\ k' = k + 1
    /\ pc' = "op"
    /\ UNCHANGED <<targets, profile, quiet, ti, allUsers, temp, u, stdout,
                   events, returned, snapshot, applied, lastApply>>
    /\ UNCHANGED chkVars

\* users.remove(target); return users -- and generate_all extends its list
Return ==
    /\ pc = "op"
    /\ k > Len(profile)
    /\ LET result == Remove(users, targets[ti])
       IN /\ returned' = result
          /\ allUsers' = Collect(allUsers, result)
    /\ ti' = ti + 1
    /\ pc' = "next_target"
    /\ UNCHANGED <<targets, profile, quiet, users, temp, k, u, stdout,
                   events, snapshot, applied, lastApply>>
    /\ UNCHANGED chkVars

\* generate_all, lines 408-411
GenAllEnd ==
    /\ pc = "next_target"
    /\ ti > Len(targets)
    /\ stdout' = info(stdout,
                      <<"generated", Len(allUsers),
                        IF Len(allUsers) = 1 THEN "username" ELSE "usernames">>,
                      quiet)
    /\ pc' = "done"
    /\ UNCHANGED <<targets, profile, quiet, ti, allUsers, users, temp, k, u,
                   events, returned, snapshot, applied, lastApply>>
    /\ UNCHANGED chkVars

----------------------------------------------------------------------------
(* user_available and check_available *)

\* candidates as generate_all returns them (no deduplication across targets)
CandidateNames == {"r0ot", "ro0t"}

\* what one request can end in: an exception of requests, a body that is not
\* JSON, a JSON object with or without the key 'valid', JSON that is no
\* container (null, a number)
Responses ==
    {"RequestException", "JSONDecodeError", "valid_true", "valid_false",
     "no_valid_key", "not_a_container"}

\* user_available(user, session, timeout, quiet): the value it returns, or
\* the exception that leaves it
user_available(resp) ==
    CASE resp = "valid_true" -> [raised |-> FALSE, value |-> "True"]
      [] resp = "valid_false" -> [raised |-> FALSE, value |-> "False"]
      [] resp = "no_valid_key" -> [raised |-> FALSE, value |-> "None"]
      [] resp \in {"RequestException", "JSONDecodeError"} ->
             [raised |-> FALSE, value |-> "None"]
      [] resp = "not_a_container" -> [raised |-> TRUE, value |-> "TypeError"]

\* Future.cancel(): only a future that is not running and not done
cancel(state) == IF state = "pending" THEN "cancelled" ELSE state

Running == {i \in DOMAIN futures : futures[i] = "running"}

\* futures = {pool.submit(user_available, user, ...): user for user in users}
SubmitAll ==
    /\ cpc = "submit"
    /\ futures' = [i \in 1..Len(candidates) |-> "pending"]
    /\ queue' = [i \in 1..Len(candidates) |-> i]
    /\ response' = [i \in 1..Len(candidates) |-> "none"]
    /\ outcome' = [i \in 1..Len(candidates) |->
                     [raised |-> FALSE, value |-> "unset"]]
    /\ cpc' = "loop"
    /\ UNCHANGED <<candidates, threads, yielded, hits, errs, checked,
                   results, stopped, atStop, report>>
    /\ UNCHANGED genVars

\* a worker thread takes the next work item; a cancelled one is dropped
WorkerTake ==
    /\ Len(queue) > 0
    /\ Cardinality(Running) < threads
    /\ LET i == Head(queue)
       IN futures' = IF futures[i] = "cancelled" THEN futures
                     ELSE [futures EXCEPT ![i] = "running"]
    /\ queue' = Tail(queue)
    /\ UNCHANGED <<candidates, threads, cpc, response, outcome, yielded,
                   hits, errs, checked, results, stopped, atStop, report>>
    /\ UNCHANGED genVars

\* user_available runs to its end on a worker thread
WorkerFinish ==
    /\ \E i \in Running, r \in Responses :
         /\ response' = [response EXCEPT ![i] = r]
         /\ outcome' = [outcome EXCEPT ![i] = user_available(r)]
         /\ futures' = [futures EXCEPT ![i] = "finished"]
    /\ UNCHANGED <<candidates, threads, cpc, queue, yielded, hits, errs,
                   checked, results, stopped, atStop, report>>
    /\ UNCHANGED genVars

\* one iteration of `for future in as_completed(futures)`
Yield ==
    /\ cpc = "loop"
    /\ \E i \in DOMAIN futures :
         /\ futures[i] = "finished"
         /\ i \notin Range(yielded)
         /\ yielded' = Append(yielded, i)
         /\ IF outcome[i].raised
              THEN \* future.result() raises; only KeyboardInterrupt is caught
                   /\ cpc' = "unwind"
                   /\ UNCHANGED <<hits, errs, checked, results>>
              ELSE /\ cpc' = cpc
                   /\ checked' = checked + 1
                   /\ CASE outcome[i].value = "True" ->
                             /\ hits' = hits + 1
                             /\ results' = Append(results, <<candidates[i], 1>>)
                             /\ errs' = errs
                        [] outcome[i].value = "False" ->
                             /\ results' = Append(results, <<candidates[i], 0>>)
                             /\ UNCHANGED <<hits, errs>>
                        [] OTHER ->
                             /\ errs' = errs + 1
                             /\ results' = Append(results, <<candidates[i], -1>>)
                             /\ hits' = hits
    /\ UNCHANGED <<candidates, threads, futures, queue, response, outcome,
                   stopped, atStop, report>>
    /\ UNCHANGED genVars

\* as_completed is exhausted
LoopEnd ==
    /\ cpc = "loop"
    /\ Len(yielded) = Len(candidates)
    /\ cpc' = "exit"
    /\ UNCHANGED <<candidates, threads, futures, queue, response, outcome,
                   yielded, hits, errs, checked, results, stopped, atStop,
                   report>>
    /\ UNCHANGED genVars

\* except KeyboardInterrupt: for future in futures: future.cancel()
\* (the interrupt is taken while the main thread waits in as_completed)
Interrupt ==
    /\ cpc = "loop"
    /\ stopped' = TRUE
    /\ atStop' = {i \in DOMAIN futures : futures[i] = "finished"}
    /\ futures' = [i \in DOMAIN futures |-> cancel(futures[i])]
    /\ cpc' = "exit"
    /\ UNCHANGED <<candidates, threads, queue, response, outcome, yielded,
                   hits, errs, checked, results, report>>
    /\ UNCHANGED genVars

\* leaving `with ThreadPoolExecutor(...)`: shutdown(wait=True) returns when
\* the queue is drained and no worker is running; then lines 456-467, unless
\* an exception is on its way out of check_available
ExitWith ==
    /\ cpc \in {"exit", "unwind"}
    /\ Len(queue) = 0
    /\ Running = {}
    /\ IF cpc = "unwind"
         THEN /\ cpc' = "raised"
              /\ report' = report
         ELSE /\ cpc' = "done"
              /\ report' = [hits |-> hits, total |-> Len(candidates),
                            stoppedAfter |-> IF checked # Len(candidates)
                                               THEN checked ELSE -1,
                            errs |-> errs]
    /\ UNCHANGED <<candidates, threads, futures, queue, response, outcome,
                   yielded, hits, errs, checked, results, stopped, atStop>>
    /\ UNCHANGED genVars

----------------------------------------------------------------------------
(* Specifications *)

GenIdle ==
    /\ pc = "start"
    /\ ti = 0
    /\ allUsers = <<>>
    /\ users = <<>>
    /\ temp = <<>>
    /\ k = 0
    /\ u = 0
    /\ stdout = <<>>
    /\ events = <<>>
    /\ returned = <<>>
    /\ snapshot = <<>>
    /\ applied = <<>>
    /\ lastApply = NoApply

ChkIdle ==
    /\ cpc = "submit"
    /\ futures = <<>>
    /\ queue = <<>>
    /\ response = <<>>
    /\ outcome = <<>>
    /\ yielded = <<>>
    /\ hits = 0
    /\ errs = 0
    /\ checked = 0
    /\ results = <<>>
    /\ stopped = FALSE
    /\ atStop = {}
    /\ report = [hits |-> 0, total |-> 0, stoppedAfter |-> -1, errs |-> 0]

\* a run of generate_all on one target
Init ==
    /\ \E b \in Bases : targets = <<b>>
    /\ \E ids \in ProfileIds(DOMAIN OpTable) :
         profile = [i \in DOMAIN ids |-> OpTable[ids[i]]]
    /\ quiet \in BOOLEAN
    /\ GenIdle
    /\ candidates = <<>>
    /\ threads = 1
    /\ ChkIdle

\* a run of generate_all on one or more targets
InitBatch ==
    /\ targets \in TargetLists
    /\ \E ids \in ProfileIds(BatchOps) :
         profile = [i \in DOMAIN ids |-> OpTable[ids[i]]]
    /\ quiet \in BOOLEAN
    /\ GenIdle
    /\ candidates = <<>>
    /\ threads = 1
    /\ ChkIdle

Next ==
    \/ GenAllStart
    \/ Call
    \/ BeginPass
    \/ ApplyUser
    \/ EndPass
    \/ Return
    \/ GenAllEnd

Spec == Init /\ [][Next]_vars

SpecBatch == InitBatch /\ [][Next]_vars

\* a run of check_available (main calls it with len(users) > 0)
InitCheck ==
    /\ targets = <<>>
    /\ profile = <<>>
    /\ quiet = FALSE
    /\ GenIdle
    /\ candidates \in UNION { [1..n -> CandidateNames] : n \in 1..MaxChecked }
    /\ threads \in 1..MaxThreads
    /\ ChkIdle

NextCheck ==
    \/ SubmitAll
    \/ WorkerTake
    \/ WorkerFinish
    \/ Yield
    \/ LoopEnd
    \/ Interrupt
    \/ ExitWith

SpecCheck == InitCheck /\ [][NextCheck]_vars

----------------------------------------------------------------------------
(* Properties of the generator *)

NoDup(seq) == \A i, j \in DOMAIN seq : seq[i] = seq[j] => i = j

\* a generate_users call has returned, for targets[ti - 1]
HasReturned == pc \in {"next_target", "done"} /\ ti > 1

Root == <<"r", "o", "o", "t">>

\* C1: the list generate_users returns does not contain the target and
\* contains no string twice.
C1_ExcludesBaseNoDuplicates ==
    HasReturned =>
        /\ targets[ti - 1] \notin Range(returned)
        /\ NoDup(returned)

\* a call returned candidates although its last op.apply produced the target
C1_Witness ==
    /\ HasReturned
    /\ Len(returned) > 0
    /\ targets[ti - 1] \in Range(lastApply.out)

\* C2: every string that enters the pool, is staged or is returned has
\* length at most 15, whatever passes came before.
C2_LengthAtMost15 ==
    \A s \in Range(users) \cup Range(temp) \cup Range(returned)
               \cup Range(allUsers) :
        Len(s) <= MaxUserLen

\* an Insertion pass met a pool string of length 15 with sites, lengthened by
\* an earlier operation, and every result was dropped
C2_Witness ==
    /\ lastApply.op.kind = "ins"
    /\ Len(lastApply.string) = MaxUserLen
    /\ lastApply.string \in Range(users)
    /\ lastApply.string # targets[ti]
    /\ Len(InsEdits(lastApply.op.cases, lastApply.string)) > 0
    /\ lastApply.out = <<>>

\* C3: pass k applies the operation to exactly the strings of the pool as it
\* was when the pass began (the target and every candidate produced so far),
\* in order, never to a string staged in the pass; after the pass every output
\* is in the pool.
C3_PassReadsSnapshot ==
    /\ pc = "user" =>
         /\ snapshot = users
         /\ users = <<targets[ti]>> \o SubSeq(events, 1, Len(users) - 1)
         /\ Len(applied) = u - 1
         /\ Len(applied) <= Len(snapshot)
         /\ \A n \in 1..Len(applied) : applied[n] = snapshot[n]
    /\ (pc = "op" /\ k > 1) =>
         /\ applied = snapshot
         /\ users = snapshot \o temp
         /\ \A s \in Range(snapshot) :
              Range(apply(profile[k - 1], s)) \subseteq Range(users)
         /\ \A t \in Range(temp) :
              \E s \in Range(snapshot) : t \in Range(apply(profile[k - 1], s))
    /\ (/\ pc = "op"
        /\ k = 3
        /\ targets[ti] = Root
        /\ profile[1].kind = "sub"
        /\ profile[1].max = 1
        /\ profile[2].kind = "suf")
       => {<<"r", "0", "o", "t", "1">>, <<"r", "o", "0", "t", "1">>}
             \subseteq Range(users)

\* [Substitution({'o': ['0']}, max=1), Suffix(['1'])] has run on "root"
C3_Witness ==
    /\ pc = "op"
    /\ k = 3
    /\ targets[ti] = Root
    /\ profile[1].kind = "sub"
    /\ profile[1].max = 1
    /\ profile[2].kind = "suf"
    /\ <<"r", "0", "o", "t", "1">> \in Range(users)
    /\ <<"r", "o", "0", "t", "1">> \in Range(users)

\* C4: success() is called once for each string of the result and for no
\* other string, when the string is staged; the calls, in order, are the
\* returned sequence.
C4_NotifiedOncePerCandidate ==
    /\ pc = "user" => events = Tail(users) \o temp
    /\ pc = "op" => events = Tail(users)
    /\ HasReturned => events = returned /\ NoDup(events)

\* a call returned two or more candidates and its last op.apply returned the
\* same string twice
C4_Witness ==
    /\ HasReturned
    /\ Len(returned) >= 2
    /\ ~NoDup(lastApply.out)

\* C5: generate_all returns the concatenation, in target order, of what
\* generate_users returns for each target alone.
C5_BatchIsConcatenation ==
    pc \in {"next_target", "done"} =>
        allUsers = join([i \in 1..(ti - 1) |->
                           GenerateUsers(targets[i], profile)])

\* a batch of two or more targets ended with a string that appears twice
C5_Witness ==
    /\ pc = "done"
    /\ Len(targets) >= 2
    /\ ~NoDup(allUsers)

----------------------------------------------------------------------------
(* Properties of the operations, stated on the last op.apply call *)

SubsetsUpTo(sites, max) ==
    {D \in SUBSET sites : 1 <= Cardinality(D) /\ Cardinality(D) <= max}

\* the first position of the run of consecutive selected sites that ends at i
RunStart(D, i) ==
    CHOOSE a \in 1..i : (\A b \in a..i : b \in D) /\ (a - 1) \notin D

\* sequential swaps over the sites D, in closed form: each run of consecutive
\* sites a..i moves the character at a behind position i, and the characters
\* of a+1..i+1 one place to the left
Transposed(string, D) ==
    [j \in 1..Len(string) |->
       IF j \in D THEN string[j + 1]
       ELSE IF (j - 1) \in D THEN string[RunStart(D, j - 1)]
       ELSE string[j]]

\* C8: Transposition swaps (i, i+1) for each selected site, in order, on one
\* shared buffer, the sites being located on the original string: a later
\* swap moves the character an earlier one placed ("abc" with [a,b],[b,c]
\* and sites (0,1) gives "bca").
C8_TranspositionSharedBuffer ==
    lastApply.op.kind = "tra" =>
        LET string == lastApply.string
            sites == {i \in 1..(Len(string) - 1) :
                        <<string[i], string[i + 1]>> \in Range(lastApply.op.cases)}
            combos == SubsetsUpTo(sites, lastApply.op.max)
        IN /\ Range(lastApply.out) = {Transposed(string, D) : D \in combos}
           /\ Len(lastApply.out) = Cardinality(combos)
           /\ (string = <<"a", "b", "c">> /\ lastApply.op.max = 2) =>
                lastApply.out = << <<"b", "a", "c">>, <<"a", "c", "b">>,
                                   <<"b", "c", "a">> >>

\* Transposition with max = 2 was applied to "abc" and returned "bca"
C8_Witness ==
    /\ lastApply.op.kind = "tra"
    /\ lastApply.op.max = 2
    /\ lastApply.string = <<"a", "b", "c">>
    /\ <<"b", "c", "a">> \in Range(lastApply.out)

\* the positions where two strings of one length differ
Diff(a, b) == {j \in 1..Len(a) : a[j] # b[j]}

\* C9: Substitution returns strings of the length of the base that differ
\* from it in 1..max positions, each a mapped character replaced by one of
\* its replacements, and returns every combination of 1..max sites with
\* every choice of replacements, once.
C9_SubstitutionCombinations ==
    lastApply.op.kind = "sub" =>
        LET string == lastApply.string
            cases == lastApply.op.cases
            max == lastApply.op.max
            sites == {i \in 1..Len(string) : string[i] \in DOMAIN cases}
            chars == UNION {Range(cases[c]) : c \in DOMAIN cases}
            choices(D) == {f \in [D -> chars] :
                             \A j \in D : f[j] \in Range(cases[string[j]])}
            expected ==
                UNION {{[j \in 1..Len(string) |->
                           IF j \in D THEN f[j] ELSE string[j]] :
                        f \in choices(D)} : D \in SubsetsUpTo(sites, max)}
        IN /\ \A s \in Range(lastApply.out) :
                /\ Len(s) = Len(string)
                /\ Cardinality(Diff(s, string)) >= 1
                /\ Cardinality(Diff(s, string)) <= max
                /\ \A j \in Diff(s, string) :
                     /\ string[j] \in DOMAIN cases
                     /\ s[j] \in Range(cases[string[j]])
           /\ Range(lastApply.out) = expected
           /\ Len(lastApply.out) = Cardinality(expected)
           /\ (string = Root /\ Cardinality(DOMAIN cases) = 1 /\ max = 1) =>
                Range(lastApply.out) =
                    {<<"r", "0", "o", "t">>, <<"r", "o", "0", "t">>}

\* Substitution with max = 2 was applied to "root" and returned "r00t"
C9_Witness ==
    /\ lastApply.op.kind = "sub"
    /\ lastApply.op.max = 2
    /\ lastApply.string = Root
    /\ <<"r", "0", "0", "t">> \in Range(lastApply.out)

\* the string without the positions D
Removed(string, D) ==
    LET keep == {i \in 1..Len(string) : i \notin D}
    IN [n \in 1..Cardinality(keep) |->
          string[CHOOSE p \in keep : Cardinality({q \in keep : q <= p}) = n]]

\* C10: Deletion removes the positions of each combination of 1..max sites at
\* once and returns nothing for a combination that removes every character;
\* no empty string is returned by apply or enters the pool ("oo" with
\* delete-set {o} gives only "o", for max = 1 and max = 2).
C10_DeletionDropsEmpty ==
    /\ lastApply.op.kind = "del" =>
         LET string == lastApply.string
             sites == {i \in 1..Len(string) :
                         string[i] \in Range(lastApply.op.cases)}
             combos == {D \in SubsetsUpTo(sites, lastApply.op.max) :
                          Cardinality(D) < Len(string)}
         IN /\ Range(lastApply.out) = {Removed(string, D) : D \in combos}
            /\ Len(lastApply.out) = Cardinality(combos)
            /\ string = <<"o", "o">> => Range(lastApply.out) = {<<"o">>}
    /\ <<>> \notin Range(lastApply.out)
    /\ <<>> \notin Range(users) \cup Range(temp) \cup Range(returned)

\* Deletion with max = 2 was applied to "oo": the two single deletions gave
\* "o" and the double deletion gave nothing
C10_Witness ==
    /\ lastApply.op.kind = "del"
    /\ lastApply.op.max = 2
    /\ lastApply.string = <<"o", "o">>
    /\ lastApply.out = << <<"o">>, <<"o">> >>

----------------------------------------------------------------------------
(* Properties of the checker *)

\* C6: once the KeyboardInterrupt handler has run, every request that had not
\* completed is cancelled: none is running and none completes afterwards.
C6_InterruptCancelsAll ==
    stopped =>
        \A i \in DOMAIN futures : i \notin atStop => futures[i] = "cancelled"

\* the answers that are a network error or a malformed response
Unknown ==
    {"RequestException", "JSONDecodeError", "no_valid_key", "not_a_container"}

\* C7: without a cancellation, check_available returns one line for every
\* candidate; the line has code -1 exactly when the request ended in a
\* network error or a malformed response, and errs counts those lines.
C7_ErrorsAreRecorded ==
    (cpc \in {"done", "raised"} /\ ~stopped) =>
        /\ cpc = "done"
        /\ Len(results) = Len(candidates)
        /\ \A n \in 1..Len(results) :
             /\ results[n][1] = candidates[yielded[n]]
             /\ results[n][2] = -1 <=> response[yielded[n]] \in Unknown
        /\ errs = Cardinality({i \in DOMAIN response : response[i] \in Unknown})

====
